---- MODULE Spec2Model ----
(***************************************************************************)
(* Model of the two command-line utilities of the repository:              *)
(*   src/Error_handling.py  (validate_filename, check_file_access,         *)
(*                           read_file_with_retries, main)                 *)
(*   src/Read_write.py      (read_file, write_file, modify_content,        *)
(*                           get_modification_choice, main)                *)
(* Text is modelled as a sequence of one-character strings.                *)
(***************************************************************************)
EXTENDS Integers, Sequences, FiniteSets, TLC

VARIABLES
    \* ---- read_file_with_retries (Error_handling.py:91-135) ----
    r_pc,          \* "idle" | "attempting" | "sleeping" | "returned" | "raised"
    filename,      \* argument filename
    max_retries,   \* argument max_retries
    retry_delay,   \* argument retry_delay
    attempts,      \* local attempts
    last_error,    \* local last_error
    r_result,      \* what the call returned or raised
    opens,         \* number of open() calls made by the call
    delays,        \* number of time.sleep() calls made by the call
    waited,        \* total seconds slept
    outcomes,      \* outcome of each open()/read(), in order
    events,        \* "open" / "sleep" in the order they happened
    \* ---- main of Error_handling.py (173-234) ----
    lab_pc,        \* "prompt" | "retry_prompt" | "reading" | "exited" | "finished"
    lab_fs,        \* kind of each path of the file system
    lab_filename,  \* the name entered in the current loop iteration
    lab_valid,     \* validate_filename result of the current iteration
    lab_access,    \* check_file_access result of the current iteration
    lab_reads,     \* number of calls of read_file_with_retries
    lab_left,      \* how the prompt loop was left: "no" | "break" | "declined"
    lab_report,    \* what main printed after the read
    \* ---- validate_filename (Error_handling.py:28-50) ----
    v_pc,          \* "call" | "done"
    v_name,        \* argument filename
    v_ret,         \* returned value
    v_out,         \* diagnostics printed
    \* ---- modify_content (Read_write.py:67-91) ----
    t_pc,          \* number of applications made: 0, 1 or 2
    t_kind,        \* argument modification_type
    t_content,     \* the original content
    t_once,        \* modify_content(content, kind)
    t_twice,       \* modify_content(modify_content(content, kind), kind)
    \* ---- main of Read_write.py (119-150) ----
    rw_pc,         \* "input" | "choose" | "output" | "confirm" | "done"
    rw_fs,         \* the file system: state of each path
    rw_fs0,        \* the file system before the run
    rw_content,    \* local content
    rw_mod_type,   \* local mod_type
    rw_modified,   \* local modified_content
    rw_output,     \* local output_filename
    rw_overwrite,  \* local overwrite (answer to the prompt), or NoAnswer
    rw_writes,     \* number of calls of write_file
    rw_exit        \* how main ended

readerVars == <<r_pc, filename, max_retries, retry_delay, attempts, last_error,
                r_result, opens, delays, waited, outcomes, events>>
labVars == <<lab_pc, lab_fs, lab_filename, lab_valid, lab_access, lab_reads,
             lab_left, lab_report>>
valVars == <<v_pc, v_name, v_ret, v_out>>
trVars == <<t_pc, t_kind, t_content, t_once, t_twice>>
rwVars == <<rw_pc, rw_fs, rw_fs0, rw_content, rw_mod_type, rw_modified,
            rw_output, rw_overwrite, rw_writes, rw_exit>>
vars == <<readerVars, labVars, valVars, trVars, rwVars>>

(***************************************************************************)
(* Bounds                                                                  *)
(***************************************************************************)
MaxRetries == 3
MaxNameLen == 2
MaxContentLen == 3

(***************************************************************************)
(* Generic helpers on sequences                                            *)
(***************************************************************************)
SeqsUpTo(S, n) == UNION {[1..k -> S] : k \in 0..n}

Contains(s, c) == \E i \in 1..Len(s) : s[i] = c

(***************************************************************************)
(* read_file_with_retries                                                  *)
(***************************************************************************)
\* Exceptions open()/read() can raise, with their Python base classes.
Mro(exc) ==
    CASE exc = "FileNotFoundError"  -> {"FileNotFoundError", "OSError", "Exception"}
      [] exc = "PermissionError"    -> {"PermissionError", "OSError", "Exception"}
      [] exc = "IsADirectoryError"  -> {"IsADirectoryError", "OSError", "Exception"}
      [] exc = "NotADirectoryError" -> {"NotADirectoryError", "OSError", "Exception"}
      [] exc = "OSError"            -> {"OSError", "Exception"}
      [] exc = "UnicodeDecodeError" -> {"UnicodeDecodeError", "ValueError", "Exception"}
      [] exc = "ValueError"         -> {"ValueError", "Exception"}

Raisable == {"FileNotFoundError", "PermissionError", "IsADirectoryError",
             "NotADirectoryError", "OSError", "UnicodeDecodeError", "ValueError"}

\* str(e) of a raised exception
ErrText(exc) ==
    CASE exc = "FileNotFoundError"  -> "[Errno 2] No such file or directory"
      [] exc = "PermissionError"    -> "[Errno 13] Permission denied"
      [] exc = "IsADirectoryError"  -> "[Errno 21] Is a directory"
      [] exc = "NotADirectoryError" -> "[Errno 20] Not a directory"
      [] exc = "OSError"            -> "[Errno 5] Input/output error"
      [] exc = "UnicodeDecodeError" -> "'utf-8' codec can't decode byte"
      [] exc = "ValueError"         -> "embedded null byte"

\* The except clauses of the try statement, in source order (lines 113-133).
ExceptClauses_NoIsADirectory ==
    << [catches |-> {"FileNotFoundError"},  branch |-> "not_found"],
       [catches |-> {"PermissionError"},    branch |-> "permission"],
       [catches |-> {"UnicodeDecodeError"}, branch |-> "decode"],
       [catches |-> {"OSError"},            branch |-> "retry"],
       [catches |-> {"Exception"},          branch |-> "unexpected"] >>

ExceptClauses ==
    << [catches |-> {"FileNotFoundError"},  branch |-> "not_found"],
       [catches |-> {"PermissionError"},    branch |-> "permission"],
       [catches |-> {"UnicodeDecodeError"}, branch |-> "decode"],
       [catches |-> {"IsADirectoryError"},  branch |-> "is_directory"],
       [catches |-> {"OSError"},            branch |-> "retry"],
       [catches |-> {"Exception"},          branch |-> "unexpected"] >>

\* The branch Python takes: the first clause that names a base class of exc.
Branch(exc) ==
    LET matching == {i \in 1..Len(ExceptClauses) :
                        ExceptClauses[i].catches \cap Mro(exc) # {}}
        first == CHOOSE i \in matching : \A j \in matching : i <= j
    IN  ExceptClauses[first].branch

\* Values a call can end with.
Pending == [kind |-> "pending", value |-> <<>>]
NoneValue == [kind |-> "None", value |-> <<>>]
Returned(content) == [kind |-> "str", value |-> content]
FileReadError(msg) == [kind |-> "FileReadError", value |-> msg]

\* The messages of the raise statements (lines 114, 116, 118, 120, 132, 135).
RaisedMessage(branch, name, exc, budget, last) ==
    CASE branch = "not_found"    -> <<"was not found", name>>
      [] branch = "permission"   -> <<"Permission denied when trying to read", name>>
      [] branch = "decode"       -> <<"contains characters that cannot be decoded", name>>
      [] branch = "is_directory" -> <<"is a directory, not a file", name>>
      [] branch = "unexpected"   -> <<"Unexpected error reading", name, ErrText(exc)>>
      [] branch = "retry"        -> <<"Failed to read", name, "after", budget,
                                      "attempts. Last error:", last>>

\* while attempts < max_retries (line 109)
LoopCond_OffByOne(a, m) == a + 1 < m

LoopCond(a, m) == a < m

\* if attempts < max_retries (line 127)
RetryCond_Inclusive(a, m) == a <= m

RetryCond(a, m) == a < m

ReaderNames == {<<"f">>}
ReaderContents == {<<>>, <<"h", "i">>}
RetryBudgets == 0..MaxRetries
RetryDelays == {0, 1}
DefaultMaxRetries == 3
DefaultRetryDelay == 1

\* The state of a call right after its first two assignments (lines 106-107).
Call(name, budget, delay) ==
    /\ r_pc' = "attempting"
    /\ filename' = name
    /\ max_retries' = budget
    /\ retry_delay' = delay
    /\ attempts' = 0
    /\ last_error' = "None"
    /\ r_result' = Pending
    /\ opens' = 0
    /\ delays' = 0
    /\ waited' = 0
    /\ outcomes' = <<>>
    /\ events' = <<>>

\* open() and file.read() succeed: return file.read() (lines 111-112)
ReadSucceeds ==
    /\ r_pc = "attempting"
    /\ LoopCond(attempts, max_retries)
    /\ \E c \in ReaderContents :
          /\ r_result' = Returned(c)
          /\ outcomes' = Append(outcomes, [exc |-> "ok", data |-> c])
    /\ opens' = opens + 1
    /\ events' = Append(events, "open")
    /\ r_pc' = "returned"
    /\ UNCHANGED <<filename, max_retries, retry_delay, attempts, last_error,
                   delays, waited>>
    /\ UNCHANGED <<labVars, valVars, trVars, rwVars>>

\* open()/read() raises and a clause that re-raises catches it
\* (lines 113-120 and 133-135)
ReadFailsForGood ==
    /\ r_pc = "attempting"
    /\ LoopCond(attempts, max_retries)
    /\ \E exc \in Raisable :
          /\ Branch(exc) # "retry"
          /\ r_result' = FileReadError(
                 RaisedMessage(Branch(exc), filename, exc, max_retries, last_error))
          /\ outcomes' = Append(outcomes, [exc |-> exc, data |-> <<>>])
    /\ opens' = opens + 1
    /\ events' = Append(events, "open")
    /\ r_pc' = "raised"
    /\ UNCHANGED <<filename, max_retries, retry_delay, attempts, last_error,
                   delays, waited>>
    /\ UNCHANGED <<labVars, valVars, trVars, rwVars>>

\* open()/read() raises and the (IOError, OSError) clause catches it
\* (lines 121-132)
ReadFailsTransiently ==
    /\ r_pc = "attempting"
    /\ LoopCond(attempts, max_retries)
    /\ \E exc \in Raisable :
          /\ Branch(exc) = "retry"
          /\ last_error' = ErrText(exc)
          /\ attempts' = attempts + 1
          /\ outcomes' = Append(outcomes, [exc |-> exc, data |-> <<>>])
          /\ IF RetryCond(attempts + 1, max_retries)
                THEN /\ r_pc' = "sleeping"
                     /\ r_result' = r_result
                ELSE /\ r_pc' = "raised"
                     /\ r_result' = FileReadError(
                            RaisedMessage("retry", filename, exc, max_retries,
                                          ErrText(exc)))
    /\ opens' = opens + 1
    /\ events' = Append(events, "open")
    /\ UNCHANGED <<filename, max_retries, retry_delay, delays, waited>>
    /\ UNCHANGED <<labVars, valVars, trVars, rwVars>>

\* time.sleep(retry_delay); continue (lines 129-130)
Sleep ==
    /\ r_pc = "sleeping"
    /\ delays' = delays + 1
    /\ waited' = waited + retry_delay
    /\ events' = Append(events, "sleep")
    /\ r_pc' = "attempting"
    /\ UNCHANGED <<filename, max_retries, retry_delay, attempts, last_error,
                   r_result, opens, outcomes>>
    /\ UNCHANGED <<labVars, valVars, trVars, rwVars>>

\* The loop condition is false: the function body ends and None is returned.
FallsOffLoop ==
    /\ r_pc = "attempting"
    /\ ~LoopCond(attempts, max_retries)
    /\ r_pc' = "returned"
    /\ r_result' = NoneValue
    /\ UNCHANGED <<filename, max_retries, retry_delay, attempts, last_error,
                   opens, delays, waited, outcomes, events>>
    /\ UNCHANGED <<labVars, valVars, trVars, rwVars>>

ReaderIdle ==
    /\ r_pc = "idle"
    /\ filename = <<>>
    /\ max_retries = 0
    /\ retry_delay = 0
    /\ attempts = 0
    /\ last_error = "None"
    /\ r_result = Pending
    /\ opens = 0
    /\ delays = 0
    /\ waited = 0
    /\ outcomes = <<>>
    /\ events = <<>>

(***************************************************************************)
(* Characters and case conversion (str.lower, str.upper, str.strip)        *)
(***************************************************************************)
LowerOf(c) ==
    CASE c = "A" -> "a"
      [] c = "B" -> "b"
      [] c = "Y" -> "y"
      [] c = "N" -> "n"
      [] OTHER -> c

UpperOf(c) ==
    CASE c = "a" -> "A"
      [] c = "b" -> "B"
      [] c = "y" -> "Y"
      [] c = "n" -> "N"
      [] OTHER -> c

Lower(s) == [i \in 1..Len(s) |-> LowerOf(s[i])]

Upper(s) == [i \in 1..Len(s) |-> UpperOf(s[i])]

Whitespace == {" ", "\t", "\n"}

RECURSIVE LStrip(_)
LStrip(s) == IF s # <<>> /\ Head(s) \in Whitespace THEN LStrip(Tail(s)) ELSE s

RECURSIVE RStrip(_)
RStrip(s) ==
    IF s # <<>> /\ s[Len(s)] \in Whitespace
       THEN RStrip(SubSeq(s, 1, Len(s) - 1))
       ELSE s

\* str.strip()
Strip(s) == RStrip(LStrip(s))

(***************************************************************************)
(* validate_filename                                                       *)
(***************************************************************************)
\* invalid_chars (line 44)
invalid_chars_NoBackslash == <<"<", ">", ":", "\"", "/", "|", "?", "*">>

invalid_chars_WithSpace == <<"<", ">", ":", "\"", "/", "\\", "|", "?", "*", " ">>

invalid_chars == <<"<", ">", ":", "\"", "/", "\\", "|", "?", "*">>

EmptyMessage == <<"Error: Filename cannot be empty.">>
InvalidCharMessage(c) == <<"Error: Filename contains invalid character", c>>

\* The loop of lines 45-48: the first entry of invalid_chars found in the name.
RECURSIVE ScanInvalid(_, _)
ScanInvalid(name, i) ==
    IF i > Len(invalid_chars)
       THEN [ret |-> TRUE, out |-> <<>>]
       ELSE IF Contains(name, invalid_chars[i])
               THEN [ret |-> FALSE, out |-> <<InvalidCharMessage(invalid_chars[i])>>]
               ELSE ScanInvalid(name, i + 1)

\* The returned value and the lines printed.
validate_filename(name) ==
    IF Strip(name) = <<>>
       THEN [ret |-> FALSE, out |-> <<EmptyMessage>>]
       ELSE ScanInvalid(name, 1)

(***************************************************************************)
(* check_file_access                                                       *)
(***************************************************************************)
\* State of a path: what it is, the permissions of the process on it and on
\* the directory that contains it.
PathState(kind, r, w, dw) ==
    [kind |-> kind, readable |-> r, writable |-> w, dir_writable |-> dw]

os_path_exists(p) == p.kind # "missing"
os_path_isfile(p) == p.kind = "file"

check_file_access(name, mode, fs) ==
    IF mode = "r"
       THEN IF ~os_path_exists(fs[name])
               THEN [ok |-> FALSE, msg |-> <<"does not exist", name>>]
            ELSE IF ~os_path_isfile(fs[name])
               THEN [ok |-> FALSE, msg |-> <<"is not a file", name>>]
            ELSE IF ~fs[name].readable
               THEN [ok |-> FALSE, msg |-> <<"no permission to read", name>>]
            ELSE [ok |-> TRUE, msg |-> <<"File access check passed.">>]
    ELSE IF mode = "w"
       THEN IF os_path_exists(fs[name])
               THEN IF ~fs[name].writable
                       THEN [ok |-> FALSE, msg |-> <<"no permission to write", name>>]
                       ELSE [ok |-> TRUE, msg |-> <<"File access check passed.">>]
               ELSE IF ~fs[name].dir_writable
                       THEN [ok |-> FALSE,
                             msg |-> <<"no permission to write to the directory", name>>]
                       ELSE [ok |-> TRUE, msg |-> <<"File access check passed.">>]
    ELSE [ok |-> TRUE, msg |-> <<"File access check passed.">>]

(***************************************************************************)
(* main of Error_handling.py                                               *)
(***************************************************************************)
LabNames == {<<"a">>, <<"b">>, <<" ">>, <<"a", "?">>}
LabPathStates == {PathState("missing", FALSE, FALSE, TRUE),
                  PathState("file", TRUE, TRUE, TRUE),
                  PathState("file", FALSE, TRUE, TRUE),
                  PathState("dir", TRUE, TRUE, TRUE)}
Answers == {<<"y">>, <<"Y">>, <<"n">>, <<>>, <<"y", "e", "s">>}
NotChecked == [ok |-> FALSE, msg |-> <<"not checked">>]

\* One iteration: validate_filename fails, continue (lines 180-184)
LabInvalidName ==
    /\ lab_pc = "prompt"
    /\ \E name \in LabNames :
          /\ ~validate_filename(name).ret
          /\ lab_filename' = name
          /\ lab_valid' = FALSE
          /\ lab_access' = NotChecked
    /\ lab_pc' = "prompt"
    /\ UNCHANGED <<lab_fs, lab_reads, lab_left, lab_report>>
    /\ UNCHANGED <<readerVars, valVars, trVars, rwVars>>

\* One iteration: check_file_access fails, the retry prompt follows
\* (lines 180-190)
LabNoAccess ==
    /\ lab_pc = "prompt"
    /\ \E name \in LabNames :
          /\ validate_filename(name).ret
          /\ ~check_file_access(name, "r", lab_fs).ok
          /\ lab_filename' = name
          /\ lab_valid' = TRUE
          /\ lab_access' = check_file_access(name, "r", lab_fs)
    /\ lab_pc' = "retry_prompt"
    /\ UNCHANGED <<lab_fs, lab_reads, lab_left, lab_report>>
    /\ UNCHANGED <<readerVars, valVars, trVars, rwVars>>

\* retry.lower() != 'y': return (lines 190-193)
LabDecline ==
    /\ lab_pc = "retry_prompt"
    /\ \E retry \in Answers : Lower(retry) # <<"y">>
    /\ lab_pc' = "exited"
    /\ lab_left' = "declined"
    /\ UNCHANGED <<lab_fs, lab_filename, lab_valid, lab_access, lab_reads, lab_report>>
    /\ UNCHANGED <<readerVars, valVars, trVars, rwVars>>

\* retry.lower() == 'y': continue (lines 190-194); as a slip, the loop is left
LabTryAnother_Breaks ==
    /\ lab_pc = "retry_prompt"
    /\ \E retry \in Answers : Lower(retry) = <<"y">>
    /\ lab_pc' = "reading"
    /\ lab_left' = "break"
    /\ lab_reads' = lab_reads + 1
    /\ Call(lab_filename, DefaultMaxRetries, DefaultRetryDelay)
    /\ UNCHANGED <<lab_fs, lab_filename, lab_valid, lab_access, lab_report>>
    /\ UNCHANGED <<valVars, trVars, rwVars>>

\* retry.lower() == 'y': continue (lines 190-194)
LabTryAnother ==
    /\ lab_pc = "retry_prompt"
    /\ \E retry \in Answers : Lower(retry) = <<"y">>
    /\ lab_pc' = "prompt"
    /\ UNCHANGED <<lab_fs, lab_filename, lab_valid, lab_access, lab_reads,
                   lab_left, lab_report>>
    /\ UNCHANGED <<readerVars, valVars, trVars, rwVars>>

\* One iteration: both checks pass, break, and read_file_with_retries is
\* called with its default arguments (lines 180-201)
LabBreak ==
    /\ lab_pc = "prompt"
    /\ \E name \in LabNames :
          /\ validate_filename(name).ret
          /\ check_file_access(name, "r", lab_fs).ok
          /\ lab_filename' = name
          /\ lab_valid' = TRUE
          /\ lab_access' = check_file_access(name, "r", lab_fs)
          /\ Call(name, DefaultMaxRetries, DefaultRetryDelay)
    /\ lab_pc' = "reading"
    /\ lab_left' = "break"
    /\ lab_reads' = lab_reads + 1
    /\ UNCHANGED <<lab_fs, lab_report>>
    /\ UNCHANGED <<valVars, trVars, rwVars>>

\* The call has ended: statistics and the optional content, or the except
\* clauses, then the finally clause (lines 202-234)
LabFinish ==
    /\ lab_pc = "reading"
    /\ r_pc \in {"returned", "raised"}
    /\ \E show_content \in Answers :
          lab_report' =
             IF r_result.kind = "FileReadError" THEN "File reading error"
             ELSE IF Lower(show_content) # <<"y">> THEN "statistics"
             ELSE IF r_result.kind = "None" THEN "Unexpected error"
             ELSE "statistics and content"
    /\ lab_pc' = "finished"
    /\ UNCHANGED <<lab_fs, lab_filename, lab_valid, lab_access, lab_reads, lab_left>>
    /\ UNCHANGED <<readerVars, valVars, trVars, rwVars>>

LabIdle ==
    /\ lab_pc = "idle"
    /\ lab_fs = <<>>
    /\ lab_filename = <<>>
    /\ lab_valid = FALSE
    /\ lab_access = NotChecked
    /\ lab_reads = 0
    /\ lab_left = "no"
    /\ lab_report = "None"

(***************************************************************************)
(* validate_filename called on any name                                    *)
(***************************************************************************)
NameChars == {"<", ">", ":", "\"", "/", "\\", "|", "?", "*", "a", " "}
Names == SeqsUpTo(NameChars, MaxNameLen)

ValidateCall ==
    /\ v_pc = "call"
    /\ v_ret' = validate_filename(v_name).ret
    /\ v_out' = validate_filename(v_name).out
    /\ v_pc' = "done"
    /\ UNCHANGED v_name
    /\ UNCHANGED <<readerVars, labVars, trVars, rwVars>>

ValIdle ==
    /\ v_pc = "idle"
    /\ v_name = <<>>
    /\ v_ret = FALSE
    /\ v_out = <<>>

(***************************************************************************)
(* modify_content                                                          *)
(***************************************************************************)
\* Index of the first line break of s, 0 when there is none
RECURSIVE FindBreak(_, _)
FindBreak(s, i) ==
    IF i > Len(s) THEN 0
    ELSE IF s[i] = "\n" THEN i
    ELSE FindBreak(s, i + 1)

\* what content.splitlines() gives: no empty last line
RECURSIVE SplitLines(_)
SplitLines(s) ==
    LET i == FindBreak(s, 1)
    IN  IF i = 0
           THEN IF s = <<>> THEN <<>> ELSE <<s>>
           ELSE <<SubSeq(s, 1, i - 1)>> \o SplitLines(SubSeq(s, i + 1, Len(s)))

\* content.split("\n"): the list of lines
RECURSIVE Split(_)
Split(s) ==
    LET i == FindBreak(s, 1)
    IN  IF i = 0
           THEN <<s>>
           ELSE <<SubSeq(s, 1, i - 1)>> \o Split(SubSeq(s, i + 1, Len(s)))

\* "\n".join(lines)
RECURSIVE Join(_)
Join(lines) ==
    IF lines = <<>> THEN <<>>
    ELSE IF Len(lines) = 1 THEN lines[1]
    ELSE lines[1] \o <<"\n">> \o Join(Tail(lines))

\* lines[::-1]
Reversed(lines) == [i \in 1..Len(lines) |-> lines[Len(lines) + 1 - i]]

\* line.capitalize()
Capitalize(line) ==
    IF line = <<>> THEN <<>> ELSE <<UpperOf(line[1])>> \o Lower(Tail(line))

modify_content(content, modification_type) ==
    IF content = <<>> THEN <<>>
    ELSE IF modification_type = "uppercase" THEN Upper(content)
    ELSE IF modification_type = "lowercase" THEN Lower(content)
    ELSE IF modification_type = "capitalize_lines"
       THEN LET lines == Split(content)
            IN  Join([i \in 1..Len(lines) |-> Capitalize(lines[i])])
    ELSE IF modification_type = "reverse_lines"
       THEN Join(Reversed(Split(content)))
    ELSE Upper(content)

ContentChars == {"a", "B", "\n"}
Contents == SeqsUpTo(ContentChars, MaxContentLen)
ModificationTypes == {"uppercase", "lowercase", "capitalize_lines",
                      "reverse_lines", "rot13"}

ApplyOnce ==
    /\ t_pc = 0
    /\ t_once' = modify_content(t_content, t_kind)
    /\ t_pc' = 1
    /\ UNCHANGED <<t_kind, t_content, t_twice>>
    /\ UNCHANGED <<readerVars, labVars, valVars, rwVars>>

ApplyAgain ==
    /\ t_pc = 1
    /\ t_twice' = modify_content(t_once, t_kind)
    /\ t_pc' = 2
    /\ UNCHANGED <<t_kind, t_content, t_once>>
    /\ UNCHANGED <<readerVars, labVars, valVars, rwVars>>

TrIdle ==
    /\ t_pc = -1
    /\ t_kind = "None"
    /\ t_content = <<>>
    /\ t_once = <<>>
    /\ t_twice = <<>>

(***************************************************************************)
(* read_file, write_file, get_modification_choice, main of Read_write.py   *)
(***************************************************************************)
\* State of a path: kind is "missing", "file", "binary" (a file whose bytes
\* are not valid UTF-8) or "dir".
FileState(kind, r, w, data) ==
    [kind |-> kind, readable |-> r, writable |-> w, data |-> data]

\* read_file: the content, or None after a diagnostic (lines 26-37)
read_file(fs, name) ==
    IF fs[name].kind = "missing" THEN NoneValue
    ELSE IF fs[name].kind = "dir" THEN NoneValue
    ELSE IF ~fs[name].readable THEN NoneValue
    ELSE IF fs[name].kind = "binary" THEN NoneValue
    ELSE Returned(fs[name].data)

\* write_file: the returned flag and the file system it leaves (lines 55-64)
write_file(fs, name, content) ==
    IF fs[name].kind = "dir" THEN [ok |-> FALSE, fs |-> fs]
    ELSE IF fs[name].kind # "missing" /\ ~fs[name].writable
       THEN [ok |-> FALSE, fs |-> fs]
    ELSE [ok |-> TRUE,
          fs |-> [fs EXCEPT ![name] =
                     FileState("file",
                               IF fs[name].kind = "missing" THEN TRUE
                                                            ELSE fs[name].readable,
                               TRUE, content)]]

\* options.get(choice, "uppercase") (lines 109-116)
get_modification_choice(choice) ==
    CASE choice = "1" -> "uppercase"
      [] choice = "2" -> "lowercase"
      [] choice = "3" -> "capitalize_lines"
      [] choice = "4" -> "reverse_lines"
      [] OTHER -> "uppercase"

\* overwrite.lower() != 'y' (line 143)
Declines_OnlyOnN(overwrite) == Lower(overwrite) = <<"n">>

Declines(overwrite) == Lower(overwrite) # <<"y">>

RWPaths == {"in.txt", "out.txt"}
RWContents == {<<"a", "\n", "B">>, <<"B">>}
RWFileStates == {FileState("missing", FALSE, FALSE, <<>>),
                 FileState("dir", TRUE, TRUE, <<>>),
                 FileState("binary", TRUE, TRUE, <<>>),
                 FileState("file", FALSE, TRUE, <<"B">>),
                 FileState("file", TRUE, FALSE, <<"B">>)}
                \cup {FileState("file", TRUE, TRUE, c) : c \in RWContents}
Choices == {"1", "2", "3", "4", "7"}
NoAnswer == <<"-">>

\* read_file returns None: return (lines 124-129)
RWReadFails ==
    /\ rw_pc = "input"
    /\ \E input_filename \in RWPaths :
          read_file(rw_fs, input_filename) = NoneValue
    /\ rw_pc' = "done"
    /\ rw_exit' = "read failed"
    /\ UNCHANGED <<rw_fs, rw_fs0, rw_content, rw_mod_type, rw_modified,
                   rw_output, rw_overwrite, rw_writes>>
    /\ UNCHANGED <<readerVars, labVars, valVars, trVars>>

\* read_file returns the content (lines 124-129)
RWRead ==
    /\ rw_pc = "input"
    /\ \E input_filename \in RWPaths :
          /\ read_file(rw_fs, input_filename) # NoneValue
          /\ rw_content' = read_file(rw_fs, input_filename).value
    /\ rw_pc' = "choose"
    /\ UNCHANGED <<rw_fs, rw_fs0, rw_mod_type, rw_modified, rw_output,
                   rw_overwrite, rw_writes, rw_exit>>
    /\ UNCHANGED <<readerVars, labVars, valVars, trVars>>

\* get_modification_choice and modify_content (lines 132-135)
RWModify ==
    /\ rw_pc = "choose"
    /\ \E choice \in Choices :
          /\ rw_mod_type' = get_modification_choice(choice)
          /\ rw_modified' = modify_content(rw_content, get_modification_choice(choice))
    /\ rw_pc' = "output"
    /\ UNCHANGED <<rw_fs, rw_fs0, rw_content, rw_output, rw_overwrite,
                   rw_writes, rw_exit>>
    /\ UNCHANGED <<readerVars, labVars, valVars, trVars>>

\* The output path does not exist: write_file is called (lines 138-150)
RWWriteNew ==
    /\ rw_pc = "output"
    /\ \E output_filename \in RWPaths :
          /\ rw_fs[output_filename].kind = "missing"
          /\ rw_output' = output_filename
          /\ rw_fs' = write_file(rw_fs, output_filename, rw_modified).fs
          /\ rw_exit' = IF write_file(rw_fs, output_filename, rw_modified).ok
                           THEN "written" ELSE "write failed"
    /\ rw_writes' = rw_writes + 1
    /\ rw_pc' = "done"
    /\ UNCHANGED <<rw_fs0, rw_content, rw_mod_type, rw_modified, rw_overwrite>>
    /\ UNCHANGED <<readerVars, labVars, valVars, trVars>>

\* The output path exists: the overwrite prompt follows (lines 138-142)
RWOutputExists ==
    /\ rw_pc = "output"
    /\ \E output_filename \in RWPaths :
          /\ rw_fs[output_filename].kind # "missing"
          /\ rw_output' = output_filename
    /\ rw_pc' = "confirm"
    /\ UNCHANGED <<rw_fs, rw_fs0, rw_content, rw_mod_type, rw_modified,
                   rw_overwrite, rw_writes, rw_exit>>
    /\ UNCHANGED <<readerVars, labVars, valVars, trVars>>

\* overwrite.lower() != 'y': "Operation cancelled.", return (lines 142-145)
RWCancel ==
    /\ rw_pc = "confirm"
    /\ \E overwrite \in Answers :
          /\ Declines(overwrite)
          /\ rw_overwrite' = overwrite
    /\ rw_pc' = "done"
    /\ rw_exit' = "cancelled"
    /\ UNCHANGED <<rw_fs, rw_fs0, rw_content, rw_mod_type, rw_modified,
                   rw_output, rw_writes>>
    /\ UNCHANGED <<readerVars, labVars, valVars, trVars>>

\* overwrite.lower() == 'y': write_file is called (lines 142-150)
RWOverwrite ==
    /\ rw_pc = "confirm"
    /\ \E overwrite \in Answers :
          /\ ~Declines(overwrite)
          /\ rw_overwrite' = overwrite
    /\ rw_fs' = write_file(rw_fs, rw_output, rw_modified).fs
    /\ rw_exit' = IF write_file(rw_fs, rw_output, rw_modified).ok
                     THEN "written" ELSE "write failed"
    /\ rw_writes' = rw_writes + 1
    /\ rw_pc' = "done"
    /\ UNCHANGED <<rw_fs0, rw_content, rw_mod_type, rw_modified, rw_output>>
    /\ UNCHANGED <<readerVars, labVars, valVars, trVars>>

RWIdle ==
    /\ rw_pc = "idle"
    /\ rw_fs = <<>>
    /\ rw_fs0 = <<>>
    /\ rw_content = <<>>
    /\ rw_mod_type = "None"
    /\ rw_modified = <<>>
    /\ rw_output = "None"
    /\ rw_overwrite = NoAnswer
    /\ rw_writes = 0
    /\ rw_exit = "running"

(***************************************************************************)
(* Specifications                                                          *)
(***************************************************************************)
\* A call of read_file_with_retries with any arguments
InitReader ==
    /\ r_pc = "attempting"
    /\ filename \in ReaderNames
    /\ max_retries \in RetryBudgets
    /\ retry_delay \in RetryDelays
    /\ attempts = 0
    /\ last_error = "None"
    /\ r_result = Pending
    /\ opens = 0
    /\ delays = 0
    /\ waited = 0
    /\ outcomes = <<>>
    /\ events = <<>>
    /\ LabIdle /\ ValIdle /\ TrIdle /\ RWIdle

NextReader ==
    \/ ReadSucceeds
    \/ ReadFailsForGood
    \/ ReadFailsTransiently
    \/ Sleep
    \/ FallsOffLoop

SpecReader == InitReader /\ [][NextReader]_vars

\* A run of main of Error_handling.py
InitLab ==
    /\ lab_pc = "prompt"
    /\ lab_fs \in [LabNames -> LabPathStates]
    /\ lab_filename = <<>>
    /\ lab_valid = FALSE
    /\ lab_access = NotChecked
    /\ lab_reads = 0
    /\ lab_left = "no"
    /\ lab_report = "None"
    /\ ReaderIdle /\ ValIdle /\ TrIdle /\ RWIdle

\* main calls read_file_with_retries(filename): max_retries is 3, so the loop
\* of the call is never left by its condition
NextLab ==
    \/ LabInvalidName
    \/ LabNoAccess
    \/ LabDecline
    \/ LabTryAnother
    \/ LabBreak
    \/ ReadSucceeds
    \/ ReadFailsForGood
    \/ ReadFailsTransiently
    \/ Sleep
    \/ LabFinish

SpecLab == InitLab /\ [][NextLab]_vars

\* validate_filename called on any name
InitValidate ==
    /\ v_pc = "call"
    /\ v_name \in Names
    /\ v_ret = FALSE
    /\ v_out = <<>>
    /\ ReaderIdle /\ LabIdle /\ TrIdle /\ RWIdle

NextValidate == ValidateCall

SpecValidate == InitValidate /\ [][NextValidate]_vars

\* modify_content applied twice to any content
InitTransform ==
    /\ t_pc = 0
    /\ t_kind \in ModificationTypes
    /\ t_content \in Contents
    /\ t_once = <<>>
    /\ t_twice = <<>>
    /\ ReaderIdle /\ LabIdle /\ ValIdle /\ RWIdle

NextTransform == ApplyOnce \/ ApplyAgain

SpecTransform == InitTransform /\ [][NextTransform]_vars

\* A run of main of Read_write.py
InitRW ==
    /\ rw_pc = "input"
    /\ rw_fs \in [RWPaths -> RWFileStates]
    /\ rw_fs0 = rw_fs
    /\ rw_content = <<>>
    /\ rw_mod_type = "None"
    /\ rw_modified = <<>>
    /\ rw_output = "None"
    /\ rw_overwrite = NoAnswer
    /\ rw_writes = 0
    /\ rw_exit = "running"
    /\ ReaderIdle /\ LabIdle /\ ValIdle /\ TrIdle

NextRW ==
    \/ RWReadFails
    \/ RWRead
    \/ RWModify
    \/ RWWriteNew
    \/ RWOutputExists
    \/ RWCancel
    \/ RWOverwrite

SpecRW == InitRW /\ [][NextRW]_vars

(***************************************************************************)
(* Properties                                                              *)
(***************************************************************************)
Terminal == r_pc \in {"returned", "raised"}

\* An OSError that is not FileNotFoundError, PermissionError or IsADirectoryError
TransientErrors == {"OSError", "NotADirectoryError"}

\* File not found, permission denied, decoding failure, path is a directory,
\* or an exception of no class the function names
PermanentErrors == {"FileNotFoundError", "PermissionError", "UnicodeDecodeError",
                    "IsADirectoryError", "ValueError"}

AllTransient == \A i \in 1..Len(outcomes) : outcomes[i].exc \in TransientErrors

\* C1: a call whose every open/read attempt fails with a transient error opens
\* the file exactly max_retries times and ends by raising the FileReadError
\* that carries the attempt count and the text of the last error, for any
\* max_retries.
C1_ExhaustedAfterMaxAttempts ==
    (Terminal /\ AllTransient) =>
        /\ opens = max_retries
        /\ r_pc = "raised"
        /\ r_result = FileReadError(<<"Failed to read", filename, "after", opens,
                                      "attempts. Last error:",
                                      ErrText(outcomes[Len(outcomes)].exc)>>)

\* C2: if the first N-1 attempts fail with a transient error and the Nth
\* succeeds, 1 <= N <= max_retries, the call returns the content that was
\* read, having opened the file exactly N times, and raises nothing; a call
\* does not end before its Nth attempt while N <= max_retries.
C2_SuccessOnNthAttempt ==
    /\ \A N \in 1..Len(outcomes) :
          (outcomes[N].exc = "ok"
              /\ \A i \in 1..(N - 1) : outcomes[i].exc \in TransientErrors) =>
             /\ N <= max_retries
             /\ N = Len(outcomes)
             /\ opens = N
             /\ r_pc = "returned"
             /\ r_result = Returned(outcomes[N].data)
    /\ (Terminal /\ AllTransient) => Len(outcomes) >= max_retries

C2_Witness ==
    /\ r_pc = "returned"
    /\ max_retries = 3
    /\ Len(outcomes) = max_retries
    /\ outcomes[3].exc = "ok"
    /\ r_result.value # <<>>

\* The text by which the FileReadError names each permanent cause
CauseText(exc) ==
    CASE exc = "FileNotFoundError"  -> "was not found"
      [] exc = "PermissionError"    -> "Permission denied when trying to read"
      [] exc = "UnicodeDecodeError" -> "contains characters that cannot be decoded"
      [] exc = "IsADirectoryError"  -> "is a directory, not a file"
      [] exc = "ValueError"         -> "Unexpected error reading"

\* C3: a permanent failure on any attempt, the first one or one that follows
\* transient failures, is the last thing the call does: it raises the
\* FileReadError naming that cause, no open and no sleep follows, and no
\* retry is counted for it; a FileNotFoundError on the first attempt leaves
\* exactly one open, zero retries and zero delays.
C3_PermanentFailureEndsCall ==
    \A i \in 1..Len(outcomes) :
        outcomes[i].exc \in PermanentErrors =>
           /\ i = Len(outcomes)
           /\ r_pc = "raised"
           /\ r_result.kind = "FileReadError"
           /\ r_result.value[1] = CauseText(outcomes[i].exc)
           /\ r_result.value[2] = filename
           /\ opens = i
           /\ attempts = i - 1
           /\ delays = i - 1
           /\ events[Len(events)] = "open"

C3_Witness ==
    /\ r_pc = "raised"
    /\ Len(outcomes) = 2
    /\ outcomes[1].exc \in TransientErrors
    /\ outcomes[2].exc = "FileNotFoundError"

\* C4: for every max_retries and retry_delay, a call that has ended has
\* either returned the content as a string or raised FileReadError; it
\* never returns without content.
C4_ThreeOutcomes ==
    Terminal =>
        \/ r_pc = "returned" /\ r_result.kind = "str"
        \/ r_pc = "raised" /\ r_result.kind = "FileReadError"

\* C10: sleeps happen only between two opens: the events of a call alternate
\* open, sleep, open, ..., starting with an open; a sleep follows exactly a
\* transient failure that leaves attempts < max_retries, lasts retry_delay,
\* and leaves the call where its next step is another open; a call that
\* ended after at least one open made opens - 1 sleeps.
C10_DelaysBetweenAttempts ==
    /\ \A i \in 1..Len(events) :
          events[i] = IF i % 2 = 1 THEN "open" ELSE "sleep"
    /\ opens + delays = Len(events)
    /\ waited = delays * retry_delay
    /\ \A k \in 1..Len(outcomes) :
          (outcomes[k].exc \in TransientErrors /\ k < max_retries)
             <=> (k <= delays \/ (k = delays + 1 /\ r_pc = "sleeping"))
    /\ (r_pc = "attempting" /\ events # <<>>) =>
          /\ events[Len(events)] = "sleep"
          /\ attempts < max_retries
    /\ (Terminal /\ opens >= 1) =>
          /\ events[Len(events)] = "open"
          /\ delays = opens - 1

C10_Witness ==
    /\ r_pc = "raised"
    /\ opens = 3
    /\ delays = 2
    /\ retry_delay = 1
    /\ AllTransient

\* The forbidden characters, in the order the validator tries them
Forbidden == <<"<", ">", ":", "\"", "/", "\\", "|", "?", "*">>

ForbiddenIn(name) == {i \in 1..Len(Forbidden) : Contains(name, Forbidden[i])}

FirstForbidden(name) ==
    Forbidden[CHOOSE i \in ForbiddenIn(name) : \A j \in ForbiddenIn(name) : i <= j]

\* C6 (as stated): for every forbidden character c the name contains,
\* validate_filename returns False and a diagnostic it emits names c.
C6_ReportsEveryForbidden ==
    v_pc = "done" =>
        \A i \in ForbiddenIn(v_name) :
            /\ v_ret = FALSE
            /\ \E k \in 1..Len(v_out) : v_out[k] = InvalidCharMessage(Forbidden[i])

\* C6 (amended): for every name that contains a forbidden character,
\* validate_filename returns False and emits exactly one diagnostic, which
\* names the first character, in the order < > : " / \ | ? *, that the name
\* contains.
C6_ReportsFirstForbidden ==
    (v_pc = "done" /\ ForbiddenIn(v_name) # {}) =>
        /\ v_ret = FALSE
        /\ v_out = <<InvalidCharMessage(FirstForbidden(v_name))>>

C6_Witness ==
    /\ v_pc = "done"
    /\ v_name = <<"*", "\\">>
    /\ v_ret = FALSE

\* C7 (as stated): for every non-empty name that contains no forbidden
\* character, validate_filename returns True and emits no diagnostic.
C7_NonEmptyCleanNameValid ==
    (v_pc = "done" /\ v_name # <<>> /\ ForbiddenIn(v_name) = {}) =>
        /\ v_ret = TRUE
        /\ v_out = <<>>

\* C7 (amended): for every name that contains a character that is not
\* whitespace and no forbidden character, validate_filename returns True and
\* emits no diagnostic.
C7_NonBlankCleanNameValid ==
    (/\ v_pc = "done"
     /\ \E i \in 1..Len(v_name) : v_name[i] \notin {" ", "\t", "\n"}
     /\ ForbiddenIn(v_name) = {}) =>
        /\ v_ret = TRUE
        /\ v_out = <<>>

C7_Witness ==
    /\ v_pc = "done"
    /\ v_name = <<"a", " ">>
    /\ v_ret = TRUE

\* C8: read_file_with_retries is called at most once per run, and only on
\* the name of the current loop iteration, which is not blank, has no
\* forbidden character and is a readable regular file; the prompt loop is
\* left only by that double pass or by the user declining after a failed
\* access check, and then no read is attempted.
C8_ValidatorGatesReader ==
    /\ lab_reads <= 1
    /\ (lab_reads = 1) <=> (r_pc # "idle")
    /\ lab_reads = 1 =>
          /\ filename = lab_filename
          /\ lab_valid
          /\ lab_access.ok
          /\ \E i \in 1..Len(lab_filename) : lab_filename[i] \notin {" ", "\t", "\n"}
          /\ ForbiddenIn(lab_filename) = {}
          /\ lab_fs[lab_filename].kind = "file"
          /\ lab_fs[lab_filename].readable
    /\ lab_pc \notin {"prompt", "retry_prompt"} =>
          \/ lab_left = "break" /\ lab_reads = 1 /\ lab_pc \in {"reading", "finished"}
          \/ /\ lab_left = "declined"
             /\ lab_pc = "exited"
             /\ lab_reads = 0
             /\ opens = 0
             /\ lab_valid
             /\ ~lab_access.ok
    /\ lab_pc \in {"prompt", "retry_prompt"} => lab_left = "no" /\ lab_reads = 0

C8_Witness ==
    /\ lab_pc = "finished"
    /\ lab_reads = 1
    /\ opens = 3
    /\ r_pc = "returned"
    /\ \E n \in LabNames : lab_fs[n].kind = "missing"

\* C5: if the output path exists and the answer to the overwrite prompt is
\* anything other than 'y' or 'Y', write_file is never called and the file
\* system, the existing file included, is as it was before the run.
C5_DeclinedOverwriteKeepsFile ==
    (rw_overwrite # NoAnswer /\ rw_overwrite \notin {<<"y">>, <<"Y">>}) =>
        /\ rw_fs0[rw_output].kind # "missing"
        /\ rw_writes = 0
        /\ rw_fs = rw_fs0
        /\ rw_pc = "done"
        /\ rw_exit = "cancelled"

C5_Witness ==
    /\ rw_pc = "done"
    /\ rw_overwrite = <<"y", "e", "s">>
    /\ rw_fs0[rw_output].kind = "file"
    /\ rw_fs0[rw_output].writable
    /\ rw_modified # rw_fs0[rw_output].data

\* C9: reverse_lines applied twice gives back the content, for every content
\* (empty lines and a trailing line break included), and one application
\* gives the same lines, each unchanged, in the opposite order.
C9_ReverseLinesTwice ==
    t_kind = "reverse_lines" =>
        /\ t_pc = 2 => t_twice = t_content
        /\ t_pc >= 1 =>
              /\ Len(t_once) = Len(t_content)
              /\ Len(Split(t_once)) = Len(Split(t_content))
              /\ \A i \in 1..Len(Split(t_content)) :
                    Split(t_once)[i] = Split(t_content)[Len(Split(t_content)) + 1 - i]

C9_Witness ==
    /\ t_pc = 2
    /\ t_kind = "reverse_lines"
    /\ t_content = <<"a", "\n", "\n">>
    /\ t_once = <<"\n", "\n", "a">>

====
